---- MODULE Spec2Model ----
(***************************************************************************)
(* Model of the langchain-nextjs chat demo:                                *)
(*   - ChatInterface (components/ChatInterface.tsx): message classifiers,  *)
(*     extractTextContent, the toolCallsByMessage reconciliation, the      *)
(*     render pass and handleSend;                                         *)
(*   - Home (app/page.tsx): the API-key gate around ChatInterface;         *)
(*   - POST (app/api/basic/route.ts): the agent endpoint.                  *)
(*                                                                         *)
(* JavaScript strings whose characters matter (content, typed text, the    *)
(* API key) are sequences of one-character strings, so that trim() and     *)
(* concatenation are computed.  Identifiers that are only compared (type   *)
(* tags, tool-call ids) are TLA+ strings; "" is the falsy/absent id.       *)
(***************************************************************************)
EXTENDS Integers, Sequences, FiniteSets, TLC

VARIABLES
    messages,     \* stream.messages: the transport's message sequence
    isLoading,    \* stream.isLoading
    error,        \* stream.error
    apiKey,       \* Home's apiKey state (the ChatInterface prop)
    inflight,     \* submissions handed to the transport and not yet finished
    submitCount,  \* number of stream.submit calls made so far
    lastSend,     \* the last handleSend call: its argument and what it did
    content,      \* the value handed to extractTextContent
    extracted,    \* what extractTextContent returned for it
    pc,           \* POST: position of the request being handled
    request,      \* POST: the request (what request.json() yields)
    agent,        \* POST: how basicAgent(body) behaves for this request
    response,     \* POST: what the handler's promise settled to
    agentCalls,   \* POST: number of basicAgent calls for this request
    served        \* POST: number of requests answered so far

vars == << messages, isLoading, error, apiKey, inflight, submitCount, lastSend,
           content, extracted, pc, request, agent, response, agentCalls, served >>

chatVars == << messages, isLoading, error >>
sendVars == << apiKey, inflight, submitCount, lastSend >>
sendVarsButInflight == << apiKey, submitCount, lastSend >>
extractVars == << content, extracted >>
postVars == << pc, request, agent, response, agentCalls, served >>

(***************************************************************************)
(* Bounds of the model.                                                    *)
(***************************************************************************)
MaxMessages == 3     \* longest message sequence the transport builds
MaxFragments == 2    \* longest structured content array
MaxSubmits == 3      \* submit calls counted per session
MaxRequests == 2     \* requests the endpoint answers

(***************************************************************************)
(* JavaScript values.                                                      *)
(***************************************************************************)
StrV(s) == [k |-> "string", s |-> s, n |-> 0, b |-> FALSE]
NumV(n) == [k |-> "number", s |-> << >>, n |-> n, b |-> FALSE]
BoolV(b) == [k |-> "boolean", s |-> << >>, n |-> 0, b |-> b]
NullV == [k |-> "null", s |-> << >>, n |-> 0, b |-> FALSE]
UndefV == [k |-> "undefined", s |-> << >>, n |-> 0, b |-> FALSE]
\* an object; hasText is `"text" in obj`, text is obj.text
ObjV(hasText, text) == [k |-> "object", hasText |-> hasText, text |-> text]
ArrV(items) == [k |-> "array", items |-> items]

\* JavaScript truthiness: "", 0, false, null and undefined are falsy
Truthy(v) ==
    CASE v.k = "string" -> v.s # << >>
      [] v.k = "number" -> v.n # 0
      [] v.k = "boolean" -> v.b
      [] v.k = "null" -> FALSE
      [] v.k = "undefined" -> FALSE
      [] OTHER -> TRUE

Digit(d) == << "0", "1", "2", "3", "4", "5", "6", "7", "8", "9" >>[d + 1]

RECURSIVE NumberToString(_)
NumberToString(n) ==
    IF n < 10 THEN << Digit(n) >>
    ELSE NumberToString(n \div 10) \o << Digit(n % 10) >>

\* String(v)
String(v) ==
    CASE v.k = "string" -> v.s
      [] v.k = "number" -> NumberToString(v.n)
      [] v.k = "boolean" -> IF v.b THEN << "t", "r", "u", "e" >>
                                   ELSE << "f", "a", "l", "s", "e" >>
      [] v.k = "null" -> << "n", "u", "l", "l" >>
      [] v.k = "undefined" -> << "u", "n", "d", "e", "f", "i", "n", "e", "d" >>
      [] v.k = "object" -> << "[", "o", "b", "j", "e", "c", "t", " ",
                              "O", "b", "j", "e", "c", "t", "]" >>
      [] OTHER -> << >>

\* a || b
Or(a, b) == IF Truthy(a) THEN a ELSE b

IsSpace(c) == c \in {" ", "\t", "\n"}

RECURSIVE TrimStart(_)
TrimStart(s) ==
    IF s # << >> /\ IsSpace(Head(s)) THEN TrimStart(Tail(s)) ELSE s

RECURSIVE TrimEnd(_)
TrimEnd(s) ==
    IF s # << >> /\ IsSpace(s[Len(s)]) THEN TrimEnd(SubSeq(s, 1, Len(s) - 1))
    ELSE s

\* String.prototype.trim
Trim(s) == TrimEnd(TrimStart(s))

(***************************************************************************)
(* extractTextContent                                                      *)
(***************************************************************************)
\* the .map callback over a content array
FragmentText(item) ==
    IF item.k = "string" THEN item.s
    ELSE IF item.k = "object" /\ item.hasText THEN String(item.text)
    ELSE << >>

RECURSIVE Join(_)
Join(parts) ==
    IF parts = << >> THEN << >> ELSE Head(parts) \o Join(Tail(parts))

\* faulty variant: the fallback written String(content ?? "")
extractTextContentNullish(c) ==
    IF c.k = "string" THEN c.s
    ELSE IF c.k = "array"
         THEN Join([i \in 1..Len(c.items) |-> FragmentText(c.items[i])])
    ELSE IF c.k = "object" /\ c.hasText THEN String(c.text)
    ELSE String(IF c.k \in {"null", "undefined"} THEN StrV(<< >>) ELSE c)

extractTextContent(c) ==
    IF c.k = "string" THEN c.s
    ELSE IF c.k = "array"
         THEN Join([i \in 1..Len(c.items) |-> FragmentText(c.items[i])])
    ELSE IF c.k = "object" /\ c.hasText THEN String(c.text)
    ELSE String(Or(c, StrV(<< >>)))

(***************************************************************************)
(* Messages.  A message is a record                                        *)
(*   type         the discriminator field ("" when missing)                *)
(*   coreAI       whether AIMessage.isInstance(message) holds              *)
(*   id           the message id ("" when missing)                         *)
(*   content      a JavaScript value                                       *)
(*   tool_calls   [isArray, calls]: the tool_calls field, calls a sequence *)
(*                of [id, name]                                            *)
(*   tool_call_id the tool_call_id field ("" when missing)                 *)
(* A position of the sequence stands for the message object at it (the     *)
(* objects of the sequence are distinct), positions counted from 1;        *)
(* messageIndex in the source is the position minus 1.                     *)
(***************************************************************************)
Msg(type, coreAI, id, c, isArray, calls, tool_call_id) ==
    [type |-> type, coreAI |-> coreAI, id |-> id, content |-> c,
     tool_calls |-> [isArray |-> isArray, calls |-> calls],
     tool_call_id |-> tool_call_id]

ToolCall(id) == [id |-> id, name |-> "search"]

\* faulty variant: whatever is neither human nor tool counts as an AI message
isAIMessageByExclusion(message) ==
    message.type \notin {"human", "tool"} \/ message.coreAI

isAIMessage(message) == message.type = "ai" \/ message.coreAI

\* faulty variant: a tool message must also carry a tool_call_id
isToolMessageWithCallId(message) ==
    message.type = "tool" /\ message.tool_call_id # ""

isToolMessage(message) == message.type = "tool"

isHumanMessage(message) == message.type = "human"

TimestampStep == 1000

\* an error value: an Error instance with its message
ErrV(msg) == [k |-> "error", s |-> msg, n |-> 0, b |-> FALSE]

(***************************************************************************)
(* toolCallsByMessage                                                      *)
(***************************************************************************)
\* let toolCalls = []; if (tool_calls && Array.isArray(tool_calls)) ...
ToolCallsOf(message) ==
    IF message.tool_calls.isArray THEN message.tool_calls.calls ELSE << >>

HasCallWithId(toolCalls, id) ==
    \E k \in 1..Len(toolCalls) : toolCalls[k].id = id

\* faulty variant: the truthiness test of tool_call_id dropped
RECURSIVE CollectToolMessagesAnyId(_, _, _)
CollectToolMessagesAnyId(msgs, toolCalls, from) ==
    IF from > Len(msgs) THEN << >>
    ELSE (IF /\ msgs[from].type = "tool"
             /\ HasCallWithId(toolCalls, msgs[from].tool_call_id)
          THEN << from >> ELSE << >>)
         \o CollectToolMessagesAnyId(msgs, toolCalls, from + 1)

\* the toolMessages array: the positions, in order, of the tool messages
\* whose tool_call_id is truthy and is the id of one of toolCalls
RECURSIVE CollectToolMessages(_, _, _)
CollectToolMessages(msgs, toolCalls, from) ==
    IF from > Len(msgs) THEN << >>
    ELSE (IF /\ isToolMessage(msgs[from])
             /\ msgs[from].tool_call_id # ""
             /\ HasCallWithId(toolCalls, msgs[from].tool_call_id)
          THEN << from >> ELSE << >>)
         \o CollectToolMessages(msgs, toolCalls, from + 1)

\* faulty variant: only the last collected tool message is compared
FindToolMessageLastOnly(msgs, toolMessages, toolCall) ==
    IF toolMessages = << >> THEN 0
    ELSE IF msgs[toolMessages[Len(toolMessages)]].tool_call_id = toolCall.id
         THEN toolMessages[Len(toolMessages)]
    ELSE 0

\* toolMessages.find(tm => tm.tool_call_id === toolCall.id); 0 is undefined
RECURSIVE FindToolMessage(_, _, _)
FindToolMessage(msgs, toolMessages, toolCall) ==
    IF toolMessages = << >> THEN 0
    ELSE IF msgs[Head(toolMessages)].tool_call_id = toolCall.id
         THEN Head(toolMessages)
    ELSE FindToolMessage(msgs, Tail(toolMessages), toolCall)

\* (messageAny.id as string) || `msg-${messageIndex}`
MessageId(msgs, i) ==
    IF msgs[i].id # "" THEN [id |-> msgs[i].id, index |-> -1]
    ELSE [id |-> "msg-", index |-> i - 1]

\* the toolCallStates array built for the AI message at position i
ToolCallStates(msgs, i) ==
    LET toolCalls == ToolCallsOf(msgs[i])
        toolMessages == CollectToolMessages(msgs, toolCalls, 1)
    IN [k \in 1..Len(toolCalls) |->
            [toolCall |-> toolCalls[k],
             toolMessage |-> FindToolMessage(msgs, toolMessages, toolCalls[k]),
             aiMessageId |-> MessageId(msgs, i),
             timestamp |-> (i - 1) * TimestampStep]]

\* insertion of one state into a list sorted by timestamp, after its equals
RECURSIVE InsertByTimestamp(_, _)
InsertByTimestamp(sorted, st) ==
    IF sorted = << >> THEN << st >>
    ELSE IF Head(sorted).timestamp - st.timestamp > 0
         THEN << st >> \o sorted
    ELSE << Head(sorted) >> \o InsertByTimestamp(Tail(sorted), st)

\* calls.sort((a, b) => a.timestamp - b.timestamp), a stable sort
RECURSIVE SortByTimestamp(_)
SortByTimestamp(calls) ==
    IF calls = << >> THEN << >>
    ELSE InsertByTimestamp(SortByTimestamp(SubSeq(calls, 1, Len(calls) - 1)),
                           calls[Len(calls)])

\* the Map: message position -> its sorted ToolCallState list
toolCallsByMessage(msgs) ==
    [i \in {j \in 1..Len(msgs) :
              isAIMessage(msgs[j]) /\ Len(ToolCallsOf(msgs[j])) > 0} |->
        SortByTimestamp(ToolCallStates(msgs, i))]

(***************************************************************************)
(* The render pass                                                         *)
(***************************************************************************)
\* stream.messages.filter(m => !isToolMessage(m)), as positions
RECURSIVE FilterNonTool(_, _)
FilterNonTool(msgs, from) ==
    IF from > Len(msgs) THEN << >>
    ELSE (IF ~isToolMessage(msgs[from]) THEN << from >> ELSE << >>)
         \o FilterNonTool(msgs, from + 1)

\* faulty variant: only the tool messages that answer a tool call are filtered out
RECURSIVE FilterMatchedTool(_, _)
FilterMatchedTool(msgs, from) ==
    IF from > Len(msgs) THEN << >>
    ELSE (IF /\ msgs[from].type = "tool"
             /\ \E j \in 1..Len(msgs) :
                   HasCallWithId(ToolCallsOf(msgs[j]), msgs[from].tool_call_id)
          THEN << >> ELSE << from >>)
         \o FilterMatchedTool(msgs, from + 1)

RenderSequenceKeepUnmatched(msgs) == FilterMatchedTool(msgs, 1)

RenderSequence(msgs) == FilterNonTool(msgs, 1)

\* faulty variant: a string error is not shown
errorMessageErrorOnly(err) ==
    IF err.k = "error" THEN StrV(err.s) ELSE UndefV

errorMessage(err) ==
    IF err.k = "error" THEN StrV(err.s)
    ELSE IF err.k = "string" THEN err
    ELSE UndefV

\* toolCallsByMessage.get(message) || [] for an AI message, else []
AssociatedToolCalls(map, msgs, i) ==
    IF isAIMessage(msgs[i])
    THEN (IF i \in DOMAIN map THEN map[i] ELSE << >>)
    ELSE << >>

\* faulty variant: the last item is looked for at stream.messages.length - 1
RenderItemUnfilteredLast(msgs, map, loading, err, i, r) ==
    LET message == msgs[i]
        text == extractTextContent(message.content)
        isLast == (r - 1 = Len(msgs) - 1)
    IN [message |-> i,
        textBubble |-> text # << >>,
        text |-> text,
        align |-> IF message.type = "human" THEN "justify-end" ELSE "justify-start",
        cursor |-> text # << >> /\ isLast /\ loading,
        toolBubbles |-> IF (message.type = "ai" \/ message.coreAI) /\ i \in DOMAIN map
                        THEN map[i] ELSE << >>,
        errorBubble |-> /\ err.k \in {"error", "string"} /\ err.s # << >>
                        /\ (message.type = "ai" \/ message.coreAI)
                        /\ r - 1 = Len(FilterNonTool(msgs, 1)) - 1]

\* what the .map callback renders for the message at position i of the
\* sequence, the item at position r of the render sequence (messageIndex is
\* r - 1); map is the memoized toolCallsByMessage
RenderItem(msgs, map, loading, err, i, r) ==
    LET message == msgs[i]
        text == extractTextContent(message.content)
        isLast == (r - 1 = Len(RenderSequence(msgs)) - 1)
    IN [message |-> i,
        textBubble |-> text # << >>,
        text |-> text,
        align |-> IF isHumanMessage(message) THEN "justify-end" ELSE "justify-start",
        cursor |-> text # << >> /\ isLast /\ loading,
        toolBubbles |-> AssociatedToolCalls(map, msgs, i),
        errorBubble |-> Truthy(errorMessage(err)) /\ isAIMessage(message) /\ isLast]

\* the messages area
Render(msgs, loading, err) ==
    LET filtered == RenderSequence(msgs)
        map == toolCallsByMessage(msgs)
    IN [welcome |-> Len(msgs) = 0,
        items |-> IF Len(msgs) = 0 THEN << >>
                  ELSE [r \in 1..Len(filtered) |->
                           RenderItem(msgs, map, loading, err, filtered[r], r)],
        dots |-> Len(msgs) # 0 /\ loading]

(***************************************************************************)
(* Messages and errors the transport delivers.                             *)
(***************************************************************************)
NoCalls == << >>

MessagePool ==
    { Msg("human", FALSE, "h1", StrV(<< "h", "i" >>), FALSE, NoCalls, ""),
      Msg("system", FALSE, "", StrV(<< "s" >>), FALSE, NoCalls, ""),
      Msg("ai", FALSE, "", ArrV(<< ObjV(TRUE, StrV(<< "o", "k" >>)) >>),
          FALSE, NoCalls, ""),
      Msg("ai", FALSE, "a1", StrV(<< >>), TRUE,
          << ToolCall("t1"), ToolCall("t2") >>, ""),
      Msg("ai", FALSE, "", StrV(<< >>), TRUE, << ToolCall("") >>, ""),
      Msg("", TRUE, "c1", StrV(<< "c" >>), TRUE, << ToolCall("t2") >>, ""),
      Msg("tool", FALSE, "", StrV(<< "4", "2" >>), FALSE, NoCalls, "t1"),
      Msg("tool", FALSE, "", StrV(<< "7" >>), FALSE, NoCalls, "t2"),
      Msg("tool", FALSE, "", StrV(<< "0" >>), FALSE, NoCalls, "") }

ErrorValues ==
    { ErrV(<< "b", "o", "o", "m" >>), ErrV(<< >>), StrV(<< "f", "a", "i", "l" >>),
      ObjV(FALSE, UndefV) }

(***************************************************************************)
(* Content values handed to extractTextContent.                            *)
(***************************************************************************)
TextSamples == { << >>, << "a" >>, << "b", "c" >> }

ScalarValues ==
    {StrV(s) : s \in TextSamples} \cup {NumV(n) : n \in {0, 12}}
        \cup {BoolV(b) : b \in BOOLEAN} \cup {NullV, UndefV}

ObjectValues ==
    {ObjV(FALSE, UndefV)} \cup {ObjV(TRUE, t) : t \in ScalarValues}

FragmentValues == ScalarValues \cup ObjectValues

ArrayValues ==
    {ArrV(items) : items \in UNION {[1..n -> FragmentValues] : n \in 0..MaxFragments}}

ContentValues == ScalarValues \cup ObjectValues \cup ArrayValues

NotExtracted == [done |-> FALSE, text |-> << >>]

(***************************************************************************)
(* Parts of the state a specification leaves alone.                        *)
(***************************************************************************)
IdleChat == messages = << >> /\ isLoading = FALSE /\ error = UndefV

IdleSend ==
    /\ apiKey = << >>
    /\ inflight = 0
    /\ submitCount = 0
    /\ lastSend = [called |-> FALSE, arg |-> UndefV, loading |-> FALSE,
                   submitted |-> FALSE, payload |-> << >>]

IdleExtract == content = UndefV /\ extracted = NotExtracted

IdlePost ==
    /\ pc = "idle"
    /\ request = [kind |-> "none", apiKey |-> UndefV, bodyMessages |-> 0]
    /\ agent = "stream"
    /\ response = [kind |-> "none", status |-> 0, error |-> << >>]
    /\ agentCalls = 0
    /\ served = 0

(***************************************************************************)
(* Home and handleSend                                                     *)
(***************************************************************************)
ApiKeyInputs ==
    { << >>, << " " >>, << "s", "k" >>, << " ", "s", "k", "2" >> }

\* what handleSend is called with: messageOverride?: string
SendArgs ==
    { UndefV, StrV(<< >>), StrV(<< " " >>), StrV(<< "\n", " " >>),
      StrV(<< "h", "i" >>), StrV(<< " ", "a", " " >>) }

NeverSent ==
    [called |-> FALSE, arg |-> UndefV, loading |-> FALSE,
     submitted |-> FALSE, payload |-> << >>]

\* Home renders ChatInterface only when apiKey.trim() is non-empty
ChatMounted == Trim(apiKey) # << >>

\* ApiKeyInput's onApiKeyChange={setApiKey}, shown while there is no key
SetApiKey(key) ==
    /\ ~ChatMounted
    /\ apiKey' = key
    /\ UNCHANGED << inflight, submitCount, lastSend, chatVars, extractVars, postVars >>

\* the transport side of stream.submit: a run starts
StreamSubmit ==
    /\ isLoading' = TRUE
    /\ error' = UndefV
    /\ inflight' = inflight + 1

\* faulty variant: the in-flight test dropped from the first guard
handleSendNoLoadingCheck(messageOverride) ==
    LET messageToSend == Or(messageOverride, StrV(<< >>))
        call == [called |-> TRUE, arg |-> messageOverride, loading |-> isLoading,
                 submitted |-> FALSE, payload |-> << >>]
    IN IF Trim(messageToSend.s) = << >>
       THEN lastSend' = call /\ UNCHANGED << isLoading, error, inflight, submitCount >>
       ELSE IF Trim(apiKey) = << >>
       THEN lastSend' = call /\ UNCHANGED << isLoading, error, inflight, submitCount >>
       ELSE /\ lastSend' = [call EXCEPT !.submitted = TRUE,
                                        !.payload = << [content |-> messageToSend.s,
                                                        type |-> "human"] >>]
            /\ submitCount' = submitCount + 1
            /\ StreamSubmit

handleSend(messageOverride) ==
    LET messageToSend == Or(messageOverride, StrV(<< >>))
        call == [called |-> TRUE, arg |-> messageOverride, loading |-> isLoading,
                 submitted |-> FALSE, payload |-> << >>]
    IN IF Trim(messageToSend.s) = << >> \/ isLoading
       THEN lastSend' = call /\ UNCHANGED << isLoading, error, inflight, submitCount >>
       ELSE IF Trim(apiKey) = << >>
       THEN lastSend' = call /\ UNCHANGED << isLoading, error, inflight, submitCount >>
       ELSE /\ lastSend' = [call EXCEPT !.submitted = TRUE,
                                        !.payload = << [content |-> messageToSend.s,
                                                        type |-> "human"] >>]
            /\ submitCount' = submitCount + 1
            /\ StreamSubmit

\* a send event: ChatInput's onSubmit or the welcome screen calls handleSend
HandleSend ==
    /\ ChatMounted
    /\ submitCount < MaxSubmits
    /\ \E arg \in SendArgs : handleSend(arg)
    /\ UNCHANGED << messages, apiKey, extractVars, postVars >>

(***************************************************************************)
(* The transport (useStream): it owns messages, isLoading and error.       *)
(***************************************************************************)
\* a run starts (stream.submit was called)
TransportStart ==
    /\ ~isLoading
    /\ StreamSubmit
    /\ UNCHANGED << messages, sendVarsButInflight, extractVars, postVars >>

\* the run delivers one more message
TransportAppend ==
    /\ isLoading
    /\ Len(messages) < MaxMessages
    /\ \E m \in MessagePool : messages' = Append(messages, m)
    /\ UNCHANGED << isLoading, error, sendVars, extractVars, postVars >>

\* the run reports an error
TransportError ==
    /\ isLoading
    /\ \E e \in ErrorValues : error' = e
    /\ UNCHANGED << messages, isLoading, sendVars, extractVars, postVars >>

\* a run ends
TransportFinish ==
    /\ inflight > 0
    /\ inflight' = inflight - 1
    /\ isLoading' = (inflight - 1 > 0)
    /\ UNCHANGED << messages, error, apiKey, submitCount, lastSend,
                    extractVars, postVars >>

(***************************************************************************)
(* Spec: the chat session as the transport drives it.                      *)
(***************************************************************************)
Init ==
    /\ IdleChat
    /\ apiKey = << "s", "k" >>
    /\ inflight = 0
    /\ submitCount = 0
    /\ lastSend = NeverSent
    /\ IdleExtract /\ IdlePost

Next ==
    \/ TransportStart
    \/ TransportAppend
    \/ TransportError
    \/ TransportFinish

Spec == Init /\ [][Next]_vars

(***************************************************************************)
(* SpecSend: send events interleaved with the transport's runs.            *)
(***************************************************************************)
InitSend ==
    /\ IdleChat
    /\ apiKey \in { << >>, << "s", "k" >> }
    /\ inflight = 0
    /\ submitCount = 0
    /\ lastSend = NeverSent
    /\ IdleExtract /\ IdlePost

NextSend ==
    \/ \E key \in ApiKeyInputs : SetApiKey(key)
    \/ HandleSend
    \/ TransportError
    \/ TransportFinish

SpecSend == InitSend /\ [][NextSend]_vars

(***************************************************************************)
(* POST /api/basic                                                         *)
(*   request   what request.json() does: "invalid" (it rejects), "null"    *)
(*             (the body is null) or "object" with its apiKey field        *)
(*   response  what the handler's promise settles to: a JSON response, the *)
(*             agent's streaming response, or "rejected" (the promise      *)
(*             rejects and the handler produced no response)               *)
(***************************************************************************)
Requests ==
    { [kind |-> "invalid", apiKey |-> UndefV, bodyMessages |-> 0],
      [kind |-> "null", apiKey |-> UndefV, bodyMessages |-> 0] }
    \cup { [kind |-> "object", apiKey |-> key, bodyMessages |-> t] :
              key \in { UndefV, StrV(<< >>), StrV(<< "s", "k" >>) },
              t \in 1..2 }

\* basicAgent(body): it returns the streaming response, throws (an Error or
\* another value) or returns a promise that rejects
AgentBehaviours == { "stream", "throwError", "throwValue", "reject" }

NoResponse == [kind |-> "none", status |-> 0, error |-> << >>]

JsonResponse(status, err) == [kind |-> "json", status |-> status, error |-> err]

Thrown(isError, msg) == [kind |-> "thrown", status |-> IF isError THEN 1 ELSE 0, error |-> msg]

MissingApiKey == << "Missing API key" >>

InternalServerError == << "Internal server error" >>

basicAgent(behaviour) ==
    CASE behaviour = "stream" -> [kind |-> "stream", status |-> 200, error |-> << >>]
      [] behaviour = "throwError" -> Thrown(TRUE, << "agent failed" >>)
      [] behaviour = "throwValue" -> Thrown(FALSE, << "agent failed" >>)
      [] behaviour = "reject" -> [kind |-> "rejected", status |-> 0,
                                  error |-> << "agent failed" >>]

\* a request arrives
Receive ==
    /\ pc = "idle"
    /\ served < MaxRequests
    /\ \E req \in Requests, behaviour \in AgentBehaviours :
          request' = req /\ agent' = behaviour
    /\ pc' = "parse"
    /\ response' = NoResponse
    /\ agentCalls' = 0
    /\ UNCHANGED << served, chatVars, sendVars, extractVars >>

\* const body = await request.json()
ParseBody ==
    /\ pc = "parse"
    /\ IF request.kind = "invalid"
       THEN pc' = "catch" /\ response' = Thrown(TRUE, << "Unexpected token" >>)
       ELSE pc' = "check" /\ UNCHANGED response
    /\ UNCHANGED << request, agent, agentCalls, served, chatVars, sendVars, extractVars >>

\* if (!body.apiKey) return 400; a null body throws a TypeError
CheckApiKey ==
    /\ pc = "check"
    /\ IF request.kind = "null"
       THEN pc' = "catch" /\ response' = Thrown(TRUE, << "Cannot read properties of null" >>)
       ELSE IF ~Truthy(request.apiKey)
       THEN pc' = "done" /\ response' = JsonResponse(400, MissingApiKey)
       ELSE pc' = "call" /\ UNCHANGED response
    /\ UNCHANGED << request, agent, agentCalls, served, chatVars, sendVars, extractVars >>

\* return basicAgent(body): a throw is caught; what it returns, a rejecting
\* promise included, is returned as it is
CallAgent ==
    /\ pc = "call"
    /\ agentCalls' = agentCalls + 1
    /\ response' = basicAgent(agent)
    /\ pc' = IF basicAgent(agent).kind = "thrown" THEN "catch" ELSE "done"
    /\ UNCHANGED << request, agent, served, chatVars, sendVars, extractVars >>

\* catch (error): 500 with error.message, or "Internal server error"
CatchError ==
    /\ pc = "catch"
    /\ response' = JsonResponse(500, IF response.status = 1 THEN response.error
                                     ELSE InternalServerError)
    /\ pc' = "done"
    /\ UNCHANGED << request, agent, agentCalls, served, chatVars, sendVars, extractVars >>

\* the request is answered; the endpoint waits for the next
Answered ==
    /\ pc = "done"
    /\ pc' = "idle"
    /\ served' = served + 1
    /\ UNCHANGED << request, agent, response, agentCalls, chatVars, sendVars, extractVars >>

InitPost ==
    /\ pc = "idle"
    /\ request = [kind |-> "none", apiKey |-> UndefV, bodyMessages |-> 0]
    /\ agent = "stream"
    /\ response = NoResponse
    /\ agentCalls = 0
    /\ served = 0
    /\ IdleChat /\ IdleSend /\ IdleExtract

NextPost ==
    \/ Receive
    \/ ParseBody
    \/ CheckApiKey
    \/ CallAgent
    \/ CatchError
    \/ Answered

SpecPost == InitPost /\ [][NextPost]_vars

(***************************************************************************)
(* SpecExtract: extractTextContent applied to every content value.         *)
(***************************************************************************)
InitExtract ==
    /\ content \in ContentValues
    /\ extracted = NotExtracted
    /\ IdleChat /\ IdleSend /\ IdlePost

Extract ==
    /\ ~extracted.done
    /\ extracted' = [done |-> TRUE, text |-> extractTextContent(content)]
    /\ UNCHANGED << content, chatVars, sendVars, postVars >>

NextExtract == Extract

SpecExtract == InitExtract /\ [][NextExtract]_vars

(***************************************************************************)
(* C8: extractTextContent against its reference.                           *)
(***************************************************************************)
\* the reference's text of one fragment
RefFragment(f) ==
    CASE f.k = "string" -> f.s
      [] f.k = "object" -> IF f.hasText THEN String(f.text) ELSE << >>
      [] OTHER -> << >>

\* in-order concatenation, built from the last fragment backwards
RECURSIVE RefConcat(_)
RefConcat(items) ==
    IF Len(items) = 0 THEN << >>
    ELSE RefConcat(SubSeq(items, 1, Len(items) - 1)) \o RefFragment(items[Len(items)])

\* the reference as claimed: only null/absent become ""
RefExtractText(c) ==
    CASE c.k = "string" -> c.s
      [] c.k = "array" -> RefConcat(c.items)
      [] c.k = "object" /\ c.hasText -> String(c.text)
      [] c.k \in {"null", "undefined"} -> << >>
      [] OTHER -> String(c)

\* the reference with every falsy value becoming ""
RefExtractTextFalsy(c) ==
    CASE c.k = "string" -> c.s
      [] c.k = "array" -> RefConcat(c.items)
      [] c.k = "object" /\ c.hasText -> String(c.text)
      [] c.k \in {"null", "undefined"} -> << >>
      [] c.k = "number" /\ c.n = 0 -> << >>
      [] c.k = "boolean" /\ ~c.b -> << >>
      [] OTHER -> String(c)

\* C8 (as claimed): extractText equals the reference in which only null and
\* absent content map to "", so that 0 and false yield "0" and "false".
C8_OnlyNullishEmpty ==
    extracted.done => extracted.text = RefExtractText(content)

\* C8 (amended): extractText is total and equals the reference in which every
\* falsy content (null, absent, 0, false) maps to ""; strings are unchanged,
\* arrays concatenate their fragments in order, objects carrying text yield
\* String(text), every other value its string form.
C8_ExtractText ==
    extracted.done => extracted.text = RefExtractTextFalsy(content)

\* a falsy non-string scalar was extracted to ""
C8_Witness ==
    /\ extracted.done
    /\ content = NumV(0)
    /\ extracted.text = << >>

(***************************************************************************)
(* Shorthands for the claims about the chat session.                       *)
(***************************************************************************)
view == Render(messages, isLoading, error)

shown == [r \in 1..Len(view.items) |-> view.items[r].message]

byMessage == toolCallsByMessage(messages)

IsTool(i) == messages[i].type = "tool"

IsAI(i) == messages[i].type = "ai" \/ messages[i].coreAI

IsHuman(i) == messages[i].type = "human"

CallsAt(i) ==
    IF messages[i].tool_calls.isArray THEN messages[i].tool_calls.calls ELSE << >>

\* positions of the tool messages whose tool_call_id is id
ToolsWithId(id) == {j \in 1..Len(messages) : IsTool(j) /\ messages[j].tool_call_id = id}

Least(S) == CHOOSE x \in S : \A y \in S : x <= y

(***************************************************************************)
(* C1                                                                      *)
(***************************************************************************)
\* C1: the render sequence is the message sequence with every tool-role
\* message removed: no tool message in it, every other message in it, in the
\* order of the input.
C1_RenderIsNonToolSubsequence ==
    LET rs == shown
    IN /\ \A r \in 1..Len(rs) : ~IsTool(rs[r])
       /\ \A i \in 1..Len(messages) : ~IsTool(i) => \E r \in 1..Len(rs) : rs[r] = i
       /\ \A r1, r2 \in 1..Len(rs) : r1 < r2 => rs[r1] < rs[r2]

\* a tool message between two displayed messages
C1_Witness ==
    /\ Len(messages) = 3
    /\ IsTool(2)
    /\ shown = << 1, 3 >>

(***************************************************************************)
(* C2                                                                      *)
(***************************************************************************)
\* C2 (as claimed): one ToolCallState per tool call, in order, whose
\* toolMessage is the first tool message of the whole sequence with an equal
\* tool_call_id, pending exactly when there is none.
C2_FirstEqualId ==
    LET map == byMessage
    IN \A i \in 1..Len(messages) :
        IsAI(i) /\ Len(CallsAt(i)) > 0 =>
            /\ i \in DOMAIN map
            /\ Len(map[i]) = Len(CallsAt(i))
            /\ \A k \in 1..Len(CallsAt(i)) :
                /\ map[i][k].toolCall = CallsAt(i)[k]
                /\ map[i][k].toolMessage =
                       IF ToolsWithId(CallsAt(i)[k].id) = {} THEN 0
                       ELSE Least(ToolsWithId(CallsAt(i)[k].id))

\* C2 (amended): one ToolCallState per tool call, in order, whose toolMessage
\* is the first tool message of the whole sequence whose tool_call_id is
\* non-empty and equal to the tool call's id, pending exactly when there is
\* none; a present toolMessage has the tool_call_id of its toolCall.
C2_FirstEqualNonEmptyId ==
    LET map == byMessage
    IN \A i \in 1..Len(messages) :
        IsAI(i) /\ Len(CallsAt(i)) > 0 =>
            /\ i \in DOMAIN map
            /\ Len(map[i]) = Len(CallsAt(i))
            /\ \A k \in 1..Len(CallsAt(i)) :
                LET id == CallsAt(i)[k].id
                    found == map[i][k].toolMessage
                IN /\ map[i][k].toolCall = CallsAt(i)[k]
                   /\ found = IF id = "" \/ ToolsWithId(id) = {} THEN 0
                              ELSE Least(ToolsWithId(id))
                   /\ found # 0 => messages[found].tool_call_id = id

\* a result that precedes its AI message is matched, the later result with
\* the same id is not, and another call of the message is pending
C2_Witness ==
    \E i \in DOMAIN byMessage :
        /\ Len(byMessage[i]) = 2
        /\ byMessage[i][1].toolMessage # 0
        /\ byMessage[i][1].toolMessage < i
        /\ \E j \in ToolsWithId(byMessage[i][1].toolCall.id) : j > i
        /\ byMessage[i][2].toolMessage = 0

(***************************************************************************)
(* C3                                                                      *)
(***************************************************************************)
IsAppend == Len(messages') > Len(messages)
              /\ SubSeq(messages', 1, Len(messages)) = messages

\* C3: a tool call matched in the pass over a sequence is still matched in the
\* pass over the sequence extended by appended messages.
C3_MonotonicAssociation ==
    [][IsAppend =>
          LET before == byMessage
              after == byMessage'
          IN \A i \in DOMAIN before : \A k \in 1..Len(before[i]) :
                before[i][k].toolMessage # 0 =>
                    /\ i \in DOMAIN after
                    /\ after[i][k].toolCall = before[i][k].toolCall
                    /\ after[i][k].toolMessage # 0]_vars

\* a call matched in the pass over the first two messages, with a tool
\* message of another id appended after it
C3_Witness ==
    /\ Len(messages) >= 3
    /\ IsTool(Len(messages))
    /\ \E i \in DOMAIN toolCallsByMessage(SubSeq(messages, 1, 2)) :
          LET before == toolCallsByMessage(SubSeq(messages, 1, 2))[i]
          IN \E k \in 1..Len(before) :
                /\ before[k].toolMessage # 0
                /\ messages[Len(messages)].tool_call_id # before[k].toolCall.id
                /\ byMessage[i][k].toolMessage # 0

(***************************************************************************)
(* C9                                                                      *)
(***************************************************************************)
\* AI messages whose tool-call list holds a call with this id
OwnersOf(id) ==
    {j \in 1..Len(messages) :
        IsAI(j) /\ \E k \in 1..Len(CallsAt(j)) : CallsAt(j)[k].id = id}

\* a tool message is neither displayed (rs) nor the toolMessage of any state
Discarded(rs, map, j) ==
    /\ \A r \in 1..Len(rs) : rs[r] # j
    /\ \A i \in DOMAIN map : \A k \in 1..Len(map[i]) : map[i][k].toolMessage # j

\* C9 (as claimed, for tool calls with a non-empty id): every ToolCallState's
\* toolCall.id is on exactly one AI message's tool-call list, and an
\* unmatched tool message is discarded.
C9_IdOnExactlyOneMessage ==
    LET map == byMessage
        rs == shown
    IN /\ \A i \in DOMAIN map : \A k \in 1..Len(map[i]) :
             map[i][k].toolCall.id # "" =>
                 Cardinality(OwnersOf(map[i][k].toolCall.id)) = 1
       /\ \A j \in 1..Len(messages) :
             IsTool(j) /\ OwnersOf(messages[j].tool_call_id) = {}
                 => Discarded(rs, map, j)

\* C9 (amended): every ToolCallState's toolCall is the tool call at its place
\* on the list of the AI message that owns the state (the id may be on other
\* AI messages' lists too), and a tool message whose tool_call_id matches no
\* tool call of any AI message is neither displayed nor any state's
\* toolMessage.
C9_IdOnOwningMessage ==
    LET map == byMessage
        rs == shown
    IN /\ \A i \in DOMAIN map :
             /\ IsAI(i)
             /\ \A k \in 1..Len(map[i]) :
                   /\ k <= Len(CallsAt(i))
                   /\ map[i][k].toolCall = CallsAt(i)[k]
                   /\ i \in OwnersOf(map[i][k].toolCall.id)
       /\ \A j \in 1..Len(messages) :
             IsTool(j) /\ OwnersOf(messages[j].tool_call_id) = {}
                 => Discarded(rs, map, j)

\* an unmatched tool message beside a completed tool call
C9_Witness ==
    /\ \E j \in 1..Len(messages) :
          /\ IsTool(j)
          /\ messages[j].tool_call_id # ""
          /\ OwnersOf(messages[j].tool_call_id) = {}
    /\ \E i \in DOMAIN byMessage : \E k \in 1..Len(byMessage[i]) :
          byMessage[i][k].toolMessage # 0

(***************************************************************************)
(* C5                                                                      *)
(***************************************************************************)
\* the transport reports an Error or a string
ErrorReported == error.k \in {"error", "string"}

\* C5 (as claimed, for an error whose message is not empty): with an error
\* reported and a non-empty render sequence, exactly one error bubble is
\* shown, on the last item, whatever its role.
C5_ErrorBubbleOnLastItem ==
    LET items == view.items
    IN ErrorReported /\ error.s # << >> /\ Len(items) > 0 =>
          \A r \in 1..Len(items) : items[r].errorBubble <=> r = Len(items)

\* C5 (amended): with an error reported and a non-empty render sequence, at
\* most one error bubble is shown; it is shown exactly when the error's
\* message is non-empty and the last item of the render sequence is an AI
\* message, and it is attached to that last item; every non-tool message is
\* still rendered.
C5_ErrorBubbleOnLastAIItem ==
    LET items == view.items
    IN ErrorReported /\ Len(items) > 0 =>
          /\ \A r \in 1..Len(items) :
                items[r].errorBubble <=>
                    (r = Len(items) /\ IsAI(items[r].message) /\ error.s # << >>)
          /\ Len(items) = Cardinality({i \in 1..Len(messages) : ~IsTool(i)})

\* an error bubble under the last of several items
C5_Witness ==
    LET items == view.items
    IN /\ error = ErrV(<< "b", "o", "o", "m" >>)
       /\ Len(items) >= 2
       /\ items[Len(items)].errorBubble
       /\ IsHuman(items[1].message)

(***************************************************************************)
(* C6                                                                      *)
(***************************************************************************)
\* C6 (as claimed): while loading the cursor is on the last item and on no
\* other, whatever the last item's text; while not loading on no item.
C6_CursorOnLastItem ==
    LET items == view.items
    IN \A r \in 1..Len(items) :
          items[r].cursor <=> (isLoading /\ r = Len(items))

\* C6 (amended): an item carries the cursor exactly when isLoading is true,
\* the item is the last of the render sequence and its extracted text is
\* non-empty; so the cursor is never mid-sequence, never shown while not
\* loading, and not shown while loading if the last item has no text.
C6_CursorOnLastTextItem ==
    LET items == view.items
    IN \A r \in 1..Len(items) :
          items[r].cursor <=>
              /\ isLoading
              /\ r = Len(items)
              /\ RefExtractTextFalsy(messages[items[r].message].content) # << >>

\* loading with three items: the cursor on the third only
C6_Witness ==
    LET items == view.items
    IN /\ isLoading
       /\ Len(items) = 3
       /\ items[3].cursor
       /\ ~items[1].cursor /\ ~items[2].cursor

(***************************************************************************)
(* C10                                                                     *)
(***************************************************************************)
\* the role is none of human, AI, tool
UnknownRole(i) ==
    /\ messages[i].type \notin {"human", "ai", "tool"}
    /\ ~messages[i].coreAI

\* msgs without the message at position i
Without(msgs, i) == SubSeq(msgs, 1, i - 1) \o SubSeq(msgs, i + 1, Len(msgs))

\* seq without its element at position r
Dropped(seq, r) ==
    [q \in 1..(Len(seq) - 1) |-> IF q < r THEN seq[q] ELSE seq[q + 1]]

\* what each item displays, free of positions: the message, its text bubble
\* and, per tool-call bubble, the call and the result message (if any)
Displayed(msgs) ==
    LET items == Render(msgs, isLoading, error).items
    IN [r \in 1..Len(items) |->
          [message |-> msgs[items[r].message],
           textBubble |-> items[r].textBubble,
           text |-> items[r].text,
           align |-> items[r].align,
           tools |-> [k \in 1..Len(items[r].toolBubbles) |->
                        [toolCall |-> items[r].toolBubbles[k].toolCall,
                         result |-> IF items[r].toolBubbles[k].toolMessage = 0
                                    THEN << >>
                                    ELSE << msgs[items[r].toolBubbles[k].toolMessage] >>]]]]

\* C10 (as claimed): a message of unknown role displays nothing: no text
\* bubble, no tool-call bubble, no error bubble, whatever its content.
C10_UnknownRoleShowsNothing ==
    LET items == view.items
    IN \A r \in 1..Len(items) :
          UnknownRole(items[r].message) =>
              /\ ~items[r].textBubble
              /\ items[r].toolBubbles = << >>
              /\ ~items[r].errorBubble

\* C10 (amended): a message of unknown role displays no tool-call bubble and
\* no error bubble; it displays a text bubble (aligned as a non-human message)
\* exactly when its extracted text is non-empty; what the other items display
\* (text bubbles, tool calls and their results) is what they display without
\* that message in the sequence.
C10_UnknownRoleShowsOnlyText ==
    LET items == view.items
    IN \A r \in 1..Len(items) :
          UnknownRole(items[r].message) =>
              /\ items[r].toolBubbles = << >>
              /\ ~items[r].errorBubble
              /\ items[r].textBubble <=>
                    RefExtractTextFalsy(messages[items[r].message].content) # << >>
              /\ items[r].align = "justify-start"
              /\ Displayed(Without(messages, items[r].message))
                    = Dropped(Displayed(messages), r)

\* a message of unknown role, last of several items, shows its text while an
\* error is reported
C10_Witness ==
    LET items == view.items
    IN /\ Len(items) >= 2
       /\ UnknownRole(items[Len(items)].message)
       /\ items[Len(items)].textBubble
       /\ error = ErrV(<< "b", "o", "o", "m" >>)
       /\ \E r \in 1..Len(items) : items[r].toolBubbles # << >>

(***************************************************************************)
(* C4                                                                      *)
(***************************************************************************)
\* the text handleSend was called with has a character that is not blank
NotBlank(arg) ==
    /\ arg.k = "string"
    /\ \E n \in 1..Len(arg.s) : arg.s[n] \notin {" ", "\t", "\n"}

InternalFailure ==
    \/ request.kind \in {"invalid", "null"}
    \/ /\ request.kind = "object"
       /\ Truthy(request.apiKey)
       /\ agent \in {"throwError", "throwValue", "reject"}

\* C7: every request is answered with 400 {error: "Missing API key"} when
\* the body has no apiKey, with 500 {error: message} on an internal failure,
\* with the agent's streaming response otherwise; the agent is not invoked
\* without an apiKey.
C7_PostAnswers ==
    /\ (request.kind = "object" /\ ~Truthy(request.apiKey)) => agentCalls = 0
    /\ pc = "done" =>
          IF request.kind = "object" /\ ~Truthy(request.apiKey)
          THEN response = JsonResponse(400, MissingApiKey)
          ELSE IF InternalFailure
          THEN response.kind = "json" /\ response.status = 500
          ELSE response.kind = "stream"

====
